---- MODULE Spec2Model ----
(***************************************************************************)
(* Wedding Ledger: the expense form (ExpenseForm.tsx), the expense store   *)
(* (public.expenses) and the dashboard / analytics reductions.             *)
(*                                                                         *)
(* Units.  Every decimal value (a form string such as "0.10", a            *)
(* DECIMAL(10,2) column) is an integer count of hundredths: "1" is 100,    *)
(* "1.5" is 150, 0.10 is 10.  The INTEGER column quantity is a plain       *)
(* integer.  A JavaScript number produced by arithmetic is a record        *)
(* [c, e]: c is the nearest value in hundredths, e in {-1, 0, 1} is the    *)
(* sign of the IEEE-754 double's deviation from the double nearest to      *)
(* c/100 (the deviation is far below half a hundredth, so it vanishes when *)
(* the value is stored in a DECIMAL(10,2) column, but it decides >=).      *)
(* A sum of stored amounts in a view is the decimal sum in hundredths: the *)
(* double sum differs from it by far less than half a hundredth.  A        *)
(* percentage that Math.round takes is modelled with the doubles that fall *)
(* just below a half (HalvesBelow).                                        *)
(***************************************************************************)
EXTENDS Integers, Sequences, FiniteSets, TLC

\* ------------------------------------------------------------------ bounds
MaxExpenses == 1
MaxFailedLoads == 1
MaxRows == 2

\* --------------------------------------------------------------- constants
Users == {"u1", "u2"}
NoUser == "anon"
Missing == ""

Categories ==
  {[id |-> "c1", name |-> "Catering"],
   [id |-> "c2", name |-> "Food & Beverages"],
   [id |-> "c3", name |-> "Snacks & Sweets"],
   [id |-> "c4", name |-> "Vehicle & Transportation"],
   [id |-> "c5", name |-> "Photographer"],
   [id |-> "c6", name |-> "Videographer"],
   [id |-> "c7", name |-> "Makeup & Grooming"]}
PaymentModes == {[id |-> "m1", name |-> "Cash"], [id |-> "m2", name |-> "UPI"]}

\* The options that the steps of the form choose among.
FormCategories == {c \in Categories : c.id = "c1"}
FormPaymentModes == {m \in PaymentModes : m.id = "m1"}
PaidBy ==
  {[id |-> "p1", name |-> "Bride", user_id |-> "u1"],
   [id |-> "p2", name |-> "Groom", user_id |-> "u2"]}
Events ==
  {[id |-> "e1", name |-> "Wedding", user_id |-> "u1"],
   [id |-> "e2", name |-> "Haldi", user_id |-> "u2"]}
\* A date is the integer yyyymmdd; NoDate is the undefined date state.
NoDate == 0
Dates == {20250110}

\* ------------------------------------------------------------ form inputs
Empty == [empty |-> TRUE, v |-> 0]
Str(n) == [empty |-> FALSE, v |-> n]

Data(name, q, p, paid) ==
  [item_name |-> name, quantity |-> q, unit_price |-> p, paid_amount |-> paid]

\* Inputs that pass validation: unpaid, paid in full, partly paid, 3 x 0.10
\* paid with 0.30, over-paid, a zero total without and with a payment, and a
\* blank item name; and a valid input with one field replaced by an invalid
\* or empty value.
ValidData ==
  {Data(<<"a">>, Str(100), Str(10), Str(0)),
   Data(<<"a">>, Str(100), Str(10), Str(10)),
   Data(<<"a">>, Str(300), Str(10), Str(10)),
   Data(<<"a">>, Str(300), Str(10), Str(30)),
   Data(<<"a">>, Str(100), Str(10), Str(30)),
   Data(<<"a">>, Str(100), Str(0), Str(0)),
   Data(<<"a">>, Str(100), Str(0), Str(10)),
   Data(<<" ">>, Str(100), Str(10), Str(0))}

BaseData == Data(<<"a">>, Str(100), Str(10), Str(0))

InvalidData ==
  {[BaseData EXCEPT !.item_name = <<>>],
   [BaseData EXCEPT !.quantity = Str(0)],
   [BaseData EXCEPT !.quantity = Str(150)],
   [BaseData EXCEPT !.unit_price = Str(-10)],
   [BaseData EXCEPT !.paid_amount = Str(-10)],
   [BaseData EXCEPT !.paid_amount = Empty]}

FormData == ValidData \cup InvalidData

\* -------------------------------------------------------- JavaScript numbers
\* ToNumber of a form string: "" is 0, a decimal literal is its double.
ToNumber(s) == IF s.empty THEN 0 ELSE s.v

\* Pairs (quantity, unit price in hundredths) whose double product
\* quantity * unit_price exceeds the double nearest to the decimal product,
\* e.g. 3 * 0.1 = 0.30000000000000004 > 0.3.  Products by 1, 2 and 4 are exact.
RoundsUp == {<<3, 10>>, <<3, 20>>, <<6, 10>>, <<6, 20>>, <<7, 10>>, <<7, 20>>}

\* data.quantity * data.unit_price on an integral quantity.
Times(q, p) ==
  [c |-> (ToNumber(q) \div 100) * ToNumber(p),
   e |-> IF <<ToNumber(q) \div 100, ToNumber(p)>> \in RoundsUp THEN 1 ELSE 0]

\* n - data.paid_amount
Minus(n, s) == [c |-> n.c - ToNumber(s), e |-> n.e]

\* data.paid_amount >= n
GreaterEq(s, n) == ToNumber(s) > n.c \/ (ToNumber(s) = n.c /\ n.e <= 0)

\* A number written to a DECIMAL(10,2) column is rounded to hundredths.
ToDecimal(n) == n.c

VARIABLES expenses, nextId, user, form, toast, errors, sent, op,
          mounted, loading, stats, analytics, analyticsExpenses,
          needsSetup, step, paidByList, eventsList, paidByTable, eventsTable

\* The state of the aggregation views: which one is mounted, its loading
\* flag (true until the load that its effect starts has ended), the
\* Dashboard's stats, the Analytics component's analytics (button.tsx:105)
\* and the expenses state of the second Analytics component (button.tsx:407).
aggVars == <<mounted, loading, stats, analytics, analyticsExpenses>>

\* The setup phase: needsSetup of Index (Index.tsx:15), the step and the two
\* lists of the SetupWizard (SetupWizard.tsx:19-27) and the names in the
\* paid_by and events rows of the user.
setupVars == <<needsSetup, step, paidByList, eventsList, paidByTable, eventsTable>>

vars ==
  <<expenses, nextId, user, form, toast, errors, sent, op, aggVars, setupVars>>

\* ---------------------------------------------------------- reference data
NameOf(table, id) == (CHOOSE r \in table : r.id = id).name

\* Array.prototype.find by display name over a loaded reference list.
FindByName(table, name) ==
  IF \E r \in table : r.name = name
    THEN (CHOOSE r \in table : r.name = name).id
    ELSE Missing

OwnPaidBy(u) == {r \in PaidBy : r.user_id = u}
OwnEvents(u) == {r \in Events : r.user_id = u}

\* ------------------------------------------------------------- validation
\* Constraint validation of the number inputs by the browser (type="number"
\* with min and step): an empty input is valid, a value below min or off the
\* step grid blocks the submit event.
NativeInvalid(data) ==
  \/ ~data.quantity.empty /\ (data.quantity.v < 100 \/ data.quantity.v % 100 # 0)
  \/ ~data.unit_price.empty /\ data.unit_price.v < 0
  \/ ~data.paid_amount.empty /\ data.paid_amount.v < 0

\* react-hook-form rules given to register(): required and min.
FieldErrors(data) ==
  {f \in {"item_name"} : data.item_name = <<>>}
  \cup {f \in {"quantity"} : data.quantity.empty \/ data.quantity.v < 100}
  \cup {f \in {"unit_price"} : data.unit_price.empty \/ data.unit_price.v < 0}
  \cup {f \in {"paid_amount"} : ~data.paid_amount.empty /\ data.paid_amount.v < 0}

\* Variant: onSubmit bound to the form without validation.
PassesValidationAlways(data) == TRUE

\* handleSubmit calls onSubmit only for data that got past both.
PassesValidation(data) == ~NativeInvalid(data) /\ FieldErrors(data) = {}

DateMsg == "Please select a date"
CategoryMsg == "Please select a category"
PaidByMsg == "Please select who paid for this expense"
EventMsg == "Please select an event"
PaymentModeMsg == "Please select a payment mode"
NoToast == "none"

\* Variant: the event check is left out.
MissingMsgNoEvent(f) ==
  IF f.date = NoDate THEN DateMsg
  ELSE IF f.category_id = Missing THEN CategoryMsg
  ELSE IF f.paid_by_id = Missing THEN PaidByMsg
  ELSE IF f.payment_mode_id = Missing THEN PaymentModeMsg
  ELSE NoToast

\* The early returns of onSubmit, in order.
MissingMsg(f) ==
  IF f.date = NoDate THEN DateMsg
  ELSE IF f.category_id = Missing THEN CategoryMsg
  ELSE IF f.paid_by_id = Missing THEN PaidByMsg
  ELSE IF f.event_id = Missing THEN EventMsg
  ELSE IF f.payment_mode_id = Missing THEN PaymentModeMsg
  ELSE NoToast

\* ------------------------------------------------------------- derivation
\* Variant: the total taken from the unit price alone.
totalAmountOfUnitPrice(data) == [c |-> ToNumber(data.unit_price), e |-> 0]

totalAmountOf(data) == Times(data.quantity, data.unit_price)

\* Variant: an over-payment leaves a balance of 0.
balanceOfClamped(data) ==
  IF GreaterEq(data.paid_amount, totalAmountOf(data))
    THEN [c |-> 0, e |-> 0]
    ELSE Minus(totalAmountOf(data), data.paid_amount)

balanceOf(data) == Minus(totalAmountOf(data), data.paid_amount)

paidStatusOf(data) ==
  IF GreaterEq(data.paid_amount, totalAmountOf(data)) THEN "paid"
  ELSE IF ToNumber(data.paid_amount) > 0 THEN "half_paid"
  ELSE "unpaid"

\* The values the form watches while the user types (lines 77-79): an empty
\* or zero quantity reads as 1, an empty unit price or paid amount as 0.
watchQuantity(data) ==
  IF ToNumber(data.quantity) = 0 THEN Str(100) ELSE data.quantity

\* The total shown live (line 80).
watchTotalAmount(data) == Times(watchQuantity(data), data.unit_price)

\* getPaidStatus (lines 263-267): the status shown live in the form.
getPaidStatus(data) ==
  IF /\ GreaterEq(data.paid_amount, watchTotalAmount(data))
     /\ (watchTotalAmount(data).c > 0
           \/ (watchTotalAmount(data).c = 0 /\ watchTotalAmount(data).e > 0))
    THEN "Paid"
  ELSE IF ToNumber(data.paid_amount) > 0 THEN "Half Paid"
  ELSE "Unpaid"

\* Variant: the update writes the entered fields and leaves the derived
\* ones to a later call: the balance it writes is that of a row with nothing
\* paid, the status 'unpaid'.
UpdatePayloadBeforeDerivation(f, data) ==
  [date |-> f.date, item_name |-> data.item_name, category_id |-> f.category_id,
   quantity |-> data.quantity, unit_price |-> data.unit_price,
   total_amount |-> totalAmountOf(data), paid_amount |-> data.paid_amount,
   balance |-> totalAmountOf(data), paid_status |-> "unpaid",
   paid_by_id |-> f.paid_by_id, event_id |-> f.event_id,
   payment_mode_id |-> f.payment_mode_id]

\* The object given to .update(): no id, no user_id.
UpdatePayload(f, data) ==
  [date |-> f.date, item_name |-> data.item_name, category_id |-> f.category_id,
   quantity |-> data.quantity, unit_price |-> data.unit_price,
   total_amount |-> totalAmountOf(data), paid_amount |-> data.paid_amount,
   balance |-> balanceOf(data), paid_status |-> paidStatusOf(data),
   paid_by_id |-> f.paid_by_id, event_id |-> f.event_id,
   payment_mode_id |-> f.payment_mode_id]

\* Variant: the payload names the owner of the chosen event as the user.
InsertPayloadOfEventOwner(u, f, data) ==
  [user_id |-> (CHOOSE e \in Events : e.name = "Wedding").user_id,
   date |-> f.date, item_name |-> data.item_name,
   category_id |-> f.category_id,
   quantity |-> data.quantity, unit_price |-> data.unit_price,
   total_amount |-> totalAmountOf(data), paid_amount |-> data.paid_amount,
   balance |-> balanceOf(data), paid_status |-> paidStatusOf(data),
   paid_by_id |-> f.paid_by_id, event_id |-> f.event_id,
   payment_mode_id |-> f.payment_mode_id]

\* The object given to .insert().
InsertPayload(u, f, data) ==
  [user_id |-> u, date |-> f.date, item_name |-> data.item_name,
   category_id |-> f.category_id,
   quantity |-> data.quantity, unit_price |-> data.unit_price,
   total_amount |-> totalAmountOf(data), paid_amount |-> data.paid_amount,
   balance |-> balanceOf(data), paid_status |-> paidStatusOf(data),
   paid_by_id |-> f.paid_by_id, event_id |-> f.event_id,
   payment_mode_id |-> f.payment_mode_id]

\* ------------------------------------------------------------------ store
\* Column types of public.expenses: quantity INTEGER, the amounts
\* DECIMAL(10,2) NOT NULL; "" is no number and 1.5 is no integer.
ColumnsAccept(p) ==
  /\ ~p.quantity.empty /\ p.quantity.v % 100 = 0
  /\ ~p.unit_price.empty
  /\ ~p.paid_amount.empty
  /\ p.date # NoDate
  /\ \E c \in Categories : c.id = p.category_id
  /\ \E b \in PaidBy : b.id = p.paid_by_id
  /\ \E v \in Events : v.id = p.event_id
  /\ \E m \in PaymentModes : m.id = p.payment_mode_id

\* The column values a payload is stored as.
Columns(p) ==
  [date |-> p.date, item_name |-> p.item_name, category_id |-> p.category_id,
   quantity |-> p.quantity.v \div 100, unit_price |-> p.unit_price.v,
   total_amount |-> ToDecimal(p.total_amount), paid_amount |-> p.paid_amount.v,
   balance |-> ToDecimal(p.balance), paid_status |-> p.paid_status,
   paid_by_id |-> p.paid_by_id, event_id |-> p.event_id,
   payment_mode_id |-> p.payment_mode_id]

InsertRow(id, p) == [id |-> id, user_id |-> p.user_id] @@ Columns(p)

\* Variant: an update that does not write paid_status.
UpdateRowKeepsStatus(r, p) ==
  [id |-> r.id, user_id |-> r.user_id]
    @@ [Columns(p) EXCEPT !.paid_status = r.paid_status]

UpdateRow(r, p) == [id |-> r.id, user_id |-> r.user_id] @@ Columns(p)

\* Row level security "Users can manage their expenses": auth.uid() = user_id.
Visible(u) == {r \in expenses : r.user_id = u}

\* ------------------------------------------------------------------ state
Tables == {"categories", "payment_modes", "paid_by", "events"}

\* The lists loadMasterData got: at most MaxFailedLoads of the four queries fail.
LoadedLists == {l \in SUBSET Tables : Cardinality(Tables \ l) <= MaxFailedLoads}

\* useForm / useState of a freshly mounted create form, and the state after
\* reset() and setDate(undefined).
BlankForm ==
  [mode |-> "create", editing |-> 0, date |-> NoDate, category_id |-> Missing,
   paid_by_id |-> Missing, event_id |-> Missing, payment_mode_id |-> Missing]

\* No form is mounted (list tab without the edit dialog).
ClosedForm == [BlankForm EXCEPT !.mode = "closed"]

\* useState of a freshly mounted Dashboard.
InitialStats ==
  [totalExpenses |-> 0, totalPaid |-> 0, totalBalance |-> 0, expenseCount |-> 0,
   upcomingPayments |-> 0, completedPayments |-> 0, categoryBreakdown |-> <<>>,
   recentActivity |-> <<>>]

\* useState<AnalyticsData | null>(null).
NoAnalytics == [null |-> TRUE]

\* Spec follows the form and the store; the views are followed by SpecAgg.
\* The lists the SetupWizard starts with (SetupWizard.tsx:23-24).
defaultPaidBy ==
  <<"Krishan", "Vishnu", "Vijendra", "Dad", "Mom", "Uncle", "Aunty", "Other">>
defaultEvents ==
  <<"Engagement", "Haldi", "Mehendi", "Sangeet", "Wedding", "Reception", "Other">>

\* The key (name, user_id) of the rows of a reference table; UNIQUE in
\* paid_by and in events, the id of a row is left out.
Keys(table) == {[name |-> r.name, user_id |-> r.user_id] : r \in table}

\* The setup lies behind: Index shows the page, no wizard is mounted and the
\* reference rows are those of PaidBy and Events.
SetupDone ==
  /\ needsSetup = "false"
  /\ step = 1
  /\ paidByList = defaultPaidBy
  /\ eventsList = defaultEvents
  /\ paidByTable = Keys(PaidBy)
  /\ eventsTable = Keys(Events)

Init ==
  /\ SetupDone
  /\ mounted = "Dashboard"
  /\ loading = TRUE
  /\ stats = InitialStats
  /\ analytics = NoAnalytics
  /\ analyticsExpenses = <<>>
  /\ expenses = {}
  /\ nextId = 1
  /\ user = NoUser
  /\ form = ClosedForm
  /\ toast = NoToast
  /\ errors = {}
  /\ sent = "none"
  /\ op = "other"

\* ---------------------------------------------------------------- session
\* With a user Index renders the page: a new Dashboard and, in the tab that
\* is open by default, a new create form.
SignIn(u) ==
  /\ user = NoUser
  /\ user' = u
  /\ form' = BlankForm
  /\ toast' = NoToast /\ errors' = {} /\ sent' = "none"
  /\ op' = "other"
  /\ mounted' = "Dashboard"
  /\ loading' = TRUE
  /\ stats' = InitialStats
  /\ UNCHANGED <<expenses, nextId, analytics, analyticsExpenses>>
  /\ UNCHANGED setupVars

\* The session ends (sign out here or in another tab) while a form may
\* still be on screen.
SignOut ==
  /\ user # NoUser
  /\ user' = NoUser
  /\ op' = "other"
  /\ toast' = NoToast /\ sent' = "none"
  /\ UNCHANGED <<expenses, nextId, form, errors>>
  /\ UNCHANGED aggVars
  /\ UNCHANGED setupVars

\* --------------------------------------------------------------- the form
\* The "Add Expense" tab mounts a new ExpenseForm without editingExpense.
OpenCreate ==
  /\ user # NoUser
  /\ form.mode # "create"
  /\ form' = BlankForm
  /\ errors' = {}
  /\ toast' = NoToast /\ sent' = "none"
  /\ op' = "other"
  /\ UNCHANGED <<expenses, nextId, user>>
  /\ UNCHANGED aggVars
  /\ UNCHANGED setupVars

\* handleEdit of a listed row mounts ExpenseForm with editingExpense, whose
\* reference fields hold display names; loadMasterData resolves each name to
\* an id against the lists that could be loaded.
loadMasterData(r, loaded) ==
  [mode |-> "edit", editing |-> r.id, date |-> r.date,
   category_id |->
     IF "categories" \in loaded
       THEN FindByName(Categories, NameOf(Categories, r.category_id)) ELSE Missing,
   paid_by_id |->
     IF "paid_by" \in loaded
       THEN FindByName(OwnPaidBy(user), NameOf(PaidBy, r.paid_by_id)) ELSE Missing,
   event_id |->
     IF "events" \in loaded
       THEN FindByName(OwnEvents(user), NameOf(Events, r.event_id)) ELSE Missing,
   payment_mode_id |->
     IF "payment_modes" \in loaded
       THEN FindByName(PaymentModes, NameOf(PaymentModes, r.payment_mode_id))
       ELSE Missing]

OpenEdit(r, loaded) ==
  /\ user # NoUser
  /\ r \in Visible(user)
  /\ form' = loadMasterData(r, loaded)
  /\ errors' = {}
  /\ toast' = NoToast /\ sent' = "none"
  /\ op' = "other"
  /\ UNCHANGED <<expenses, nextId, user>>
  /\ UNCHANGED aggVars
  /\ UNCHANGED setupVars

\* Calendar onSelect={setDate}: picking the selected day again clears it.
SetDate(d) ==
  /\ form.mode # "closed"
  /\ form.date # d
  /\ form' = [form EXCEPT !.date = d]
  /\ op' = "other"
  /\ toast' = NoToast /\ sent' = "none"
  /\ UNCHANGED <<expenses, nextId, user, errors>>
  /\ UNCHANGED aggVars
  /\ UNCHANGED setupVars

\* Select onValueChange: setValue(field, id of the chosen option).
SelectOption(field, id) ==
  /\ form.mode # "closed"
  /\ form[field] # id
  /\ form' = [form EXCEPT ![field] = id]
  /\ op' = "other"
  /\ toast' = NoToast /\ sent' = "none"
  /\ UNCHANGED <<expenses, nextId, user, errors>>
  /\ UNCHANGED aggVars
  /\ UNCHANGED setupVars

AddedMsg == "Expense added successfully!"
\* The form's "Expense updated successfully!" is followed at once by the
\* toast of handleEditComplete, which replaces it.
UpdatedMsg == "The expense has been updated successfully."
NotAuthenticatedMsg == "Not authenticated"
\* error.message of a failed request.
RequestFailedMsg == "request failed"
DeletedMsg == "has been deleted successfully."

\* .update(payload).eq('id', id) under row level security: rewrites the
\* visible rows with that id; matching no row is not an error.
UpdateExpenses(u, id, p) ==
  {IF r.id = id /\ r.user_id = u THEN UpdateRow(r, p) ELSE r : r \in expenses}

\* handleSubmit(onSubmit): constraint validation, the register() rules, then
\* onSubmit itself; dbOk is whether the store answers without a
\* network/server failure.
Submit(data, dbOk) ==
  /\ form.mode \in {"create", "edit"}
  /\ form.mode = "create" => nextId <= MaxExpenses
  /\ op' = IF PassesValidation(data) THEN "submit" ELSE "rejected"
  /\ UNCHANGED <<user, aggVars>>
  /\ IF ~PassesValidation(data)
       THEN /\ errors' = IF NativeInvalid(data) THEN errors ELSE FieldErrors(data)
            /\ toast' = NoToast /\ sent' = "none"
            /\ UNCHANGED <<expenses, nextId, form>>
     ELSE IF MissingMsg(form) # NoToast
       THEN /\ errors' = {}
            /\ toast' = MissingMsg(form) /\ sent' = "none"
            /\ UNCHANGED <<expenses, nextId, form>>
     ELSE IF user = NoUser
       THEN /\ errors' = {}
            /\ toast' = NotAuthenticatedMsg /\ sent' = "none"
            /\ UNCHANGED <<expenses, nextId, form>>
     ELSE IF form.mode = "edit"
       THEN /\ errors' = {}
            /\ sent' = "update"
            /\ IF dbOk /\ ColumnsAccept(UpdatePayload(form, data))
                 THEN /\ expenses' =
                           UpdateExpenses(user, form.editing, UpdatePayload(form, data))
                      /\ toast' = UpdatedMsg
                      /\ form' = ClosedForm
                 ELSE /\ toast' = RequestFailedMsg
                      /\ UNCHANGED <<expenses, form>>
            /\ UNCHANGED nextId
     ELSE /\ errors' = {}
          /\ sent' = "insert"
          /\ IF dbOk /\ ColumnsAccept(InsertPayload(user, form, data))
               THEN /\ expenses' =
                         expenses \cup {InsertRow(nextId, InsertPayload(user, form, data))}
                    /\ nextId' = nextId + 1
                    /\ toast' = AddedMsg
                    /\ form' = BlankForm
               ELSE /\ toast' = RequestFailedMsg
                    /\ UNCHANGED <<expenses, nextId, form>>
  /\ UNCHANGED setupVars

\* confirmDelete of a listed row: .delete().eq('id', id).
Delete(r, dbOk) ==
  /\ user # NoUser
  /\ r \in Visible(user)
  /\ op' = "delete"
  /\ sent' = "delete"
  /\ IF dbOk
       THEN /\ expenses' = {x \in expenses : ~(x.id = r.id /\ x.user_id = user)}
            /\ toast' = DeletedMsg
       ELSE /\ toast' = RequestFailedMsg
            /\ UNCHANGED expenses
  /\ UNCHANGED <<nextId, user, form, errors>>
  /\ UNCHANGED aggVars
  /\ UNCHANGED setupVars

Next ==
  \/ \E u \in Users : SignIn(u)
  \/ SignOut
  \/ OpenCreate
  \/ \E r \in expenses, loaded \in LoadedLists : OpenEdit(r, loaded)
  \/ \E d \in Dates \cup {NoDate} : SetDate(d)
  \/ \E c \in FormCategories : SelectOption("category_id", c.id)
  \/ \E m \in FormPaymentModes : SelectOption("payment_mode_id", m.id)
  \/ \E p \in OwnPaidBy(user) : SelectOption("paid_by_id", p.id)
  \/ \E e \in OwnEvents(user) : SelectOption("event_id", e.id)
  \/ \E data \in FormData, dbOk \in BOOLEAN : Submit(data, dbOk)
  \/ \E r \in expenses, dbOk \in BOOLEAN : Delete(r, dbOk)

Spec == Init /\ [][Next]_vars

\* ======================================================================
\* The aggregation views
\* ======================================================================

\* -------------------------------------------------------- fetched records
\* An embedded resource, e.g. categories(name): the name of the referenced
\* row when the reader may see it, null otherwise.
JoinName(table, id) ==
  IF \E t \in table : t.id = id THEN NameOf(table, id) ELSE Missing

\* select('*, categories(name), paid_by(name), events(name),
\* payment_modes(name)') as read by user u.
Joined(r, u) ==
  r @@ [categories |-> JoinName(Categories, r.category_id),
        paid_by |-> JoinName(OwnPaidBy(u), r.paid_by_id),
        events |-> JoinName(OwnEvents(u), r.event_id),
        payment_modes |-> JoinName(PaymentModes, r.payment_mode_id)]

\* select('*, categories(name), events(name)') as read by user u.
JoinedCategoryEvent(r, u) ==
  r @@ [categories |-> JoinName(Categories, r.category_id),
        events |-> JoinName(OwnEvents(u), r.event_id)]

\* Variant: the query returns the expenses of every user.
FetchOfAllUsers(u) == expenses

\* from('expenses') ... .eq('user_id', user.id) under row level security.
Fetch(u) == {r \in Visible(u) : r.user_id = u}

\* The sequences that list every element of S once.
RECURSIVE Orderings(_)
Orderings(S) ==
  IF S = {} THEN {<<>>}
  ELSE UNION {{<<x>> \o s : s \in Orderings(S \ {x})} : x \in S}

\* order lists the id of every record of S once.
IsOrdering(order, S) ==
  /\ Len(order) = Cardinality(S)
  /\ {order[i] : i \in 1..Len(order)} = {r.id : r \in S}

\* The records of S in the order of their ids in order.
InOrder(S, order) ==
  [i \in 1..Len(order) |-> CHOOSE r \in S : r.id = order[i]]

\* .order('created_at', {ascending: false}): created_at is the insertion
\* time, which grows with the id given at insertion.
RECURSIVE OrderByCreatedAtDesc(_)
OrderByCreatedAtDesc(S) ==
  IF S = {} THEN <<>>
  ELSE LET r == CHOOSE x \in S : \A y \in S : y.id <= x.id
       IN  <<r>> \o OrderByCreatedAtDesc(S \ {r})

\* .order('date', {ascending: false}): records of one date come in any order.
IsDateDesc(s) == \A i, j \in 1..Len(s) : i < j => s[i].date >= s[j].date

\* -------------------------------------------------------------- reductions
RECURSIVE SumSeq(_)
SumSeq(s) == IF Len(s) = 0 THEN 0 ELSE s[1] + SumSeq(SubSeq(s, 2, Len(s)))

Column(rows, f) == [i \in 1..Len(rows) |-> rows[i][f]]

\* Variant: a negative value adds nothing to the sum.
TotalOfPositive(rows, f) ==
  SumSeq([i \in 1..Len(rows) |-> IF rows[i][f] < 0 THEN 0 ELSE rows[i][f]])

\* rows.reduce((sum, exp) => sum + Number(exp[f]), 0)
Total(rows, f) == SumSeq(Column(rows, f))

\* Variant: a missing name is the key as it is.
GroupKeysUnlabelled(rows, join, sentinel) ==
  [i \in 1..Len(rows) |-> rows[i][join]]

\* exp[join]?.name || sentinel, for every record.
GroupKeys(rows, join, sentinel) ==
  [i \in 1..Len(rows) |->
     IF rows[i][join] = Missing THEN sentinel ELSE rows[i][join]]

\* Variant: a key keeps the value of its last record only.
GroupSumOverwrite(keys, vals) ==
  [k \in {keys[i] : i \in DOMAIN keys} |->
     vals[CHOOSE i \in DOMAIN keys :
            keys[i] = k /\ \A j \in DOMAIN keys : keys[j] = k => j <= i]]

\* rows.reduce((acc, exp) => { acc[key] = (acc[key] || 0) + val; ... }, {})
GroupSum(keys, vals) ==
  [k \in {keys[i] : i \in DOMAIN keys} |->
     SumSeq([i \in 1..Len(keys) |-> IF keys[i] = k THEN vals[i] ELSE 0])]

\* The own keys of the reduced object in the order Object.entries lists them:
\* the order in which the records first set them (no key of the model is an
\* integer index).
RECURSIVE OwnKeys(_, _)
OwnKeys(keys, n) ==
  IF n = 0 THEN <<>>
  ELSE IF \E j \in 1..(n - 1) : keys[j] = keys[n]
    THEN OwnKeys(keys, n - 1)
    ELSE Append(OwnKeys(keys, n - 1), keys[n])

\* Object.entries of the reduced object: its [key, value] pairs in key order.
GroupEntries(keys, vals) ==
  LET own == OwnKeys(keys, Len(keys))
  IN  [n \in 1..Len(own) |->
         [key |-> own[n], value |-> GroupSum(keys, vals)[own[n]]]]

\* The number of records filed under each key.
GroupCount(keys) ==
  [k \in {keys[i] : i \in DOMAIN keys} |->
     Cardinality({i \in DOMAIN keys : keys[i] = k})]

RecentLimit == 5

\* Variant: array.slice(-n), the last n elements.
SliceFromEnd(s, n) == SubSeq(s, IF Len(s) < n THEN 1 ELSE Len(s) - n + 1, Len(s))

\* array.slice(0, n)
Slice(s, n) == SubSeq(s, 1, IF Len(s) < n THEN Len(s) ELSE n)

\* ---------------------------------------------------------------- Dashboard
\* Variant: a partly paid record counts with either status.
CountStatusOrPartly(rows, status) ==
  Len(SelectSeq(rows, LAMBDA e : e.paid_status \in {status, "half_paid"}))

\* expenses.filter(exp => exp.paid_status === status).length
CountStatus(rows, status) ==
  Len(SelectSeq(rows, LAMBDA e : e.paid_status = status))

\* Variant: negative balances are left out of totalBalance.
DashboardStatsPositiveBalance(rows) ==
  [totalExpenses |-> Total(rows, "total_amount"),
   totalPaid |-> Total(rows, "paid_amount"),
   totalBalance |-> Total(SelectSeq(rows, LAMBDA e : e.balance > 0), "balance"),
   expenseCount |-> Len(rows),
   upcomingPayments |-> CountStatus(rows, "unpaid"),
   completedPayments |-> CountStatus(rows, "paid"),
   categoryBreakdown |->
     GroupEntries(GroupKeys(rows, "categories", "Other"),
                  Column(rows, "total_amount")),
   recentActivity |-> Slice(rows, RecentLimit)]

\* The object loadDashboardData gives to setStats.
DashboardStats(rows) ==
  [totalExpenses |-> Total(rows, "total_amount"),
   totalPaid |-> Total(rows, "paid_amount"),
   totalBalance |-> Total(rows, "balance"),
   expenseCount |-> Len(rows),
   upcomingPayments |-> CountStatus(rows, "unpaid"),
   completedPayments |-> CountStatus(rows, "paid"),
   categoryBreakdown |->
     GroupEntries(GroupKeys(rows, "categories", "Other"),
                  Column(rows, "total_amount")),
   recentActivity |-> Slice(rows, RecentLimit)]

\* Reduced fractions paid/total whose double (paid / total) * 100 lies just
\* below the exact percentage, a half: (23 / 40) * 100 = 57.49999999999999.
\* The other halves that the amounts of the model produce are exact.
HalvesBelow == {<<23, 40>>, <<41, 40>>, <<51, 40>>}

\* Math.round((paid / total) * 100) for paid >= 0 and total > 0: Math.round
\* takes halves up, and the double just below a half down.
MathRoundPercent(paid, total) ==
  IF \E q \in HalvesBelow : paid * q[2] = total * q[1]
    THEN (100 * paid) \div total
    ELSE (200 * paid + total) \div (2 * total)

getPercentagePaid ==
  IF stats.totalExpenses = 0 THEN 0
  ELSE MathRoundPercent(stats.totalPaid, stats.totalExpenses)

RECURSIVE InsertByAmount(_, _)

\* Variant: e goes in front of the entries of its own amount.
InsertByAmountBeforeTies(e, s) ==
  LET notLarger == {i \in 1..Len(s) : s[i].value <= e.value}
      p == IF notLarger = {} THEN Len(s) + 1
           ELSE CHOOSE i \in notLarger : \A j \in notLarger : i <= j
  IN  SubSeq(s, 1, p - 1) \o <<e>> \o SubSeq(s, p, Len(s))

\* One step of a stable insertion: e goes behind the entries that the
\* comparator ([, a], [, b]) => b - a does not put after it.
InsertByAmount(e, s) ==
  IF Len(s) = 0 THEN <<e>>
  ELSE IF s[1].value >= e.value
    THEN <<s[1]>> \o InsertByAmount(e, SubSeq(s, 2, Len(s)))
    ELSE <<e>> \o s

\* entries.sort(by amount, largest first) of the first n entries.
RECURSIVE SortByAmountDesc(_, _)
SortByAmountDesc(s, n) ==
  IF n = 0 THEN <<>> ELSE InsertByAmount(s[n], SortByAmountDesc(s, n - 1))

TopLimit == 6

\* The rows of the Top Categories card.
topCategories ==
  Slice(SortByAmountDesc(stats.categoryBreakdown, Len(stats.categoryBreakdown)),
        TopLimit)

\* What a division of doubles gives that is no finite number.
NaN == "NaN"
Infinity == "Infinity"

\* (num / den) * 100 for num >= 0 and den >= 0: 0 / 0 is NaN and x / 0 is
\* Infinity; a finite percentage is kept in whole percents, rounded down.
PercentOf(num, den) ==
  IF den = 0 THEN (IF num = 0 THEN NaN ELSE Infinity)
  ELSE (100 * num) \div den

\* Dashboard (line 335): the share of one row of the Top Categories card,
\* and the width of its bar.
percentage(amount) == PercentOf(amount, stats.totalExpenses)

\* ---------------------------------------------------- Analytics (line 103)
\* One step of a stable insertion: e goes behind the records that the
\* comparator (a, b) => time(b.date) - time(a.date) does not put after it.
RECURSIVE InsertByDate(_, _)
InsertByDate(e, s) ==
  IF Len(s) = 0 THEN <<e>>
  ELSE IF s[1].date >= e.date
    THEN <<s[1]>> \o InsertByDate(e, SubSeq(s, 2, Len(s)))
    ELSE <<e>> \o s

\* expenses.sort(by date, latest first) of the first n records; the sort of
\* Array.prototype is stable.
RECURSIVE SortByDateDesc(_, _)
SortByDateDesc(s, n) ==
  IF n = 0 THEN <<>> ELSE InsertByDate(s[n], SortByDateDesc(s, n - 1))

\* A month as a count of months: 12 * year + month index.
MonthOf(date) == 12 * (date \div 10000) + ((date \div 100) % 100) - 1

TrendMonths == 6

\* The month that getMonth() and getFullYear() give for new Date(exp.date):
\* the string 'yyyy-mm-dd' is parsed as midnight UTC and read in local time,
\* which in a zone behind UTC is the evening of the day before.
LocalMonthOf(date, behindUTC) ==
  IF behindUTC /\ date % 100 = 1 THEN MonthOf(date) - 1 ELSE MonthOf(date)

\* generateMonthlyTrend: six buckets that end at the month of now, each the
\* paid_amount of the records that the filter puts in that month.
generateMonthlyTrend(rows, now, behindUTC) ==
  [k \in 1..TrendMonths |->
     [month |-> now - (TrendMonths - k),
      amount |->
        SumSeq([i \in 1..Len(rows) |->
                  IF LocalMonthOf(rows[i].date, behindUTC) = now - (TrendMonths - k)
                    THEN rows[i].paid_amount ELSE 0])]]

processExpenseData(rows, now, behindUTC) ==
  [totalBudget |-> Total(rows, "total_amount"),
   totalSpent |-> Total(rows, "paid_amount"),
   totalBalance |-> Total(rows, "balance"),
   expensesByCategory |->
     GroupSum(GroupKeys(rows, "categories", "Uncategorized"),
              Column(rows, "total_amount")),
   expensesByEvent |->
     GroupSum(GroupKeys(rows, "events", "No Event"), Column(rows, "total_amount")),
   expensesByStatus |->
     GroupSum(Column(rows, "paid_status"), Column(rows, "total_amount")),
   recentExpenses |-> Slice(SortByDateDesc(rows, Len(rows)), RecentLimit),
   monthlyTrend |-> generateMonthlyTrend(rows, now, behindUTC)]

\* Analytics (line 238), computed by every render that has analytics.
budgetUtilization == PercentOf(analytics.totalSpent, analytics.totalBudget)

\* ---------------------------------------------------- Analytics (line 406)
\* The summary statistics and groupings computed on every render.
totalSpent == Total(analyticsExpenses, "total_amount")
totalPaid == Total(analyticsExpenses, "paid_amount")
totalBalance == Total(analyticsExpenses, "balance")

\* A quotient of doubles that is not rounded: the fraction num / den.
paymentPercent ==
  IF totalSpent > 0 THEN [num |-> 100 * totalPaid, den |-> totalSpent]
  ELSE [num |-> 0, den |-> 1]

\* acc[key] = {total, paid, balance, count} summed over the records of key.
GroupTotals(rows, keys) ==
  [k \in {keys[i] : i \in DOMAIN keys} |->
     [total |-> GroupSum(keys, Column(rows, "total_amount"))[k],
      paid |-> GroupSum(keys, Column(rows, "paid_amount"))[k],
      balance |-> GroupSum(keys, Column(rows, "balance"))[k],
      count |-> GroupCount(keys)[k]]]

categoryData ==
  GroupTotals(analyticsExpenses, GroupKeys(analyticsExpenses, "categories", "Unknown"))

eventData ==
  GroupTotals(analyticsExpenses, GroupKeys(analyticsExpenses, "events", "General"))

statusData ==
  [k \in {analyticsExpenses[i].paid_status : i \in DOMAIN analyticsExpenses} |->
     [count |-> GroupCount(Column(analyticsExpenses, "paid_status"))[k],
      amount |->
        GroupSum(Column(analyticsExpenses, "paid_status"),
                 Column(analyticsExpenses, "total_amount"))[k]]]

\* Variant: the total of a payment method adds total_amount.
paymentMethodDataOfTotals ==
  [k \in DOMAIN GroupCount(GroupKeys(analyticsExpenses, "payment_modes", "Unknown")) |->
     [total |->
        GroupSum(GroupKeys(analyticsExpenses, "payment_modes", "Unknown"),
                 Column(analyticsExpenses, "total_amount"))[k],
      count |->
        GroupCount(GroupKeys(analyticsExpenses, "payment_modes", "Unknown"))[k]]]

\* acc[method] = {total, count}: total adds paid_amount.
paymentMethodData ==
  [k \in DOMAIN GroupCount(GroupKeys(analyticsExpenses, "payment_modes", "Unknown")) |->
     [total |->
        GroupSum(GroupKeys(analyticsExpenses, "payment_modes", "Unknown"),
                 Column(analyticsExpenses, "paid_amount"))[k],
      count |->
        GroupCount(GroupKeys(analyticsExpenses, "payment_modes", "Unknown"))[k]]]

\* ------------------------------------------------------- the views' steps
Components == {"Dashboard", "Analytics", "Analytics2"}

\* One of the views is mounted in place of the current one; its state is its
\* useState defaults.
Mount(c) ==
  /\ user # NoUser
  /\ mounted # c
  /\ mounted' = c
  /\ loading' = TRUE
  /\ stats' = InitialStats
  /\ analytics' = NoAnalytics
  /\ analyticsExpenses' = <<>>
  /\ op' = "other"
  /\ toast' = NoToast /\ sent' = "none"
  /\ UNCHANGED <<expenses, nextId, user, form, errors>>
  /\ UNCHANGED setupVars

\* Dashboard.loadDashboardData, run once by the effect of a mounted view when
\* there is a user; ok is whether the expenses query answers without an
\* error.  The profile query
\* that follows cannot fail the load; the wedding date it sets is left out.
loadDashboardData(ok) ==
  /\ mounted = "Dashboard"
  /\ user # NoUser
  /\ loading
  /\ loading' = FALSE
  /\ sent' = "select"
  /\ toast' = NoToast
  /\ IF ok
       THEN /\ stats' =
                 DashboardStats(OrderByCreatedAtDesc({Joined(r, user) : r \in Fetch(user)}))
            /\ op' = "fetched"
       ELSE /\ op' = "fetchFailed"
            /\ UNCHANGED stats
  /\ UNCHANGED <<expenses, nextId, user, form, errors, mounted, analytics,
                 analyticsExpenses>>
  /\ UNCHANGED setupVars

\* The months new Date() falls in when the Analytics view loads.
NowMonths == {MonthOf(20250215), MonthOf(20250815)}

\* Analytics.fetchAnalyticsData (line 114): the query has no order clause, so
\* the fetched collection comes in any order of its records.
fetchAnalyticsData(ok, order, now, behindUTC) ==
  /\ mounted = "Analytics"
  /\ user # NoUser
  /\ loading
  /\ loading' = FALSE
  /\ IsOrdering(order, Fetch(user))
  /\ sent' = "select"
  /\ toast' = NoToast
  /\ IF ok
       THEN /\ analytics' =
                 LET fetched == InOrder(Fetch(user), order)
                     rows == [i \in DOMAIN fetched |->
                                JoinedCategoryEvent(fetched[i], user)]
                 IN  processExpenseData(rows, now, behindUTC)
            /\ op' = "fetched"
       ELSE /\ op' = "fetchFailed"
            /\ UNCHANGED analytics
  /\ UNCHANGED <<expenses, nextId, user, form, errors, mounted, stats,
                 analyticsExpenses>>
  /\ UNCHANGED setupVars

\* Analytics.loadExpenses (line 414); without a user it returns at once.
loadExpenses(ok, order) ==
  /\ mounted = "Analytics2"
  /\ user # NoUser
  /\ loading
  /\ loading' = FALSE
  /\ IsOrdering(order, Fetch(user))
  /\ IsDateDesc(InOrder(Fetch(user), order))
  /\ sent' = "select"
  /\ toast' = NoToast
  /\ IF ok
       THEN /\ analyticsExpenses' =
                 LET fetched == InOrder(Fetch(user), order)
                 IN  [i \in DOMAIN fetched |-> Joined(fetched[i], user)]
            /\ op' = "fetched"
       ELSE /\ op' = "fetchFailed"
            /\ UNCHANGED analyticsExpenses
  /\ UNCHANGED <<expenses, nextId, user, form, errors, mounted, stats, analytics>>
  /\ UNCHANGED setupVars

\* One step of a stable insertion: e goes behind the records that the
\* comparator (a, b) => b.total_amount - a.total_amount does not put after it.
RECURSIVE InsertByTotal(_, _)
InsertByTotal(e, s) ==
  IF Len(s) = 0 THEN <<e>>
  ELSE IF s[1].total_amount >= e.total_amount
    THEN <<s[1]>> \o InsertByTotal(e, SubSeq(s, 2, Len(s)))
    ELSE <<e>> \o s

\* expenses.sort(by total_amount, largest first) of the first n records.
RECURSIVE SortByTotalDesc(_, _)
SortByTotalDesc(s, n) ==
  IF n = 0 THEN <<>> ELSE InsertByTotal(s[n], SortByTotalDesc(s, n - 1))

RecentLimit10 == 10
UpcomingLimit == 5

\* Analytics (line 558): the first ten records of the state array.
recentExpenses == Slice(analyticsExpenses, RecentLimit10)

\* Select(s, n): the records with a balance among the first n of s, in order.
RECURSIVE WithBalance(_, _)
WithBalance(s, n) ==
  IF n = 0 THEN <<>>
  ELSE IF s[n].balance > 0
    THEN Append(WithBalance(s, n - 1), s[n])
    ELSE WithBalance(s, n - 1)

\* Analytics (line 559): the first five records that have a balance.
upcomingPayments ==
  Slice(WithBalance(analyticsExpenses, Len(analyticsExpenses)), UpcomingLimit)

\* One render of the loaded Analytics view (line 406 on).  The summary values
\* are computed from the state array; the children of the Insights tab are
\* then evaluated, and Array.prototype.sort at line 860 sorts the state array
\* itself, in place, before slice copies the first five.
renderAnalytics ==
  /\ mounted = "Analytics2"
  /\ user # NoUser
  /\ ~loading
  /\ analyticsExpenses' = SortByTotalDesc(analyticsExpenses, Len(analyticsExpenses))
  /\ UNCHANGED <<expenses, nextId, user, form, toast, errors, sent, op,
                 mounted, loading, stats, analytics>>
  /\ UNCHANGED setupVars

\* ------------------------------------------------------ stores to aggregate
\* Inputs of the form: 2 x 500.00 paid in full, 1 x 300.00 unpaid, 1 x 40.00
\* with 23.00 paid, a zero total, 0.10 over-paid with 0.30, and 3 x 0.10
\* with 0.30 paid.
PaidInFull == Data(<<"a">>, Str(200), Str(50000), Str(100000))
Unpaid == Data(<<"a">>, Str(100), Str(30000), Str(0))
PartlyPaid == Data(<<"a">>, Str(100), Str(4000), Str(2300))
ZeroTotal == Data(<<"a">>, Str(100), Str(0), Str(0))
OverPaid == Data(<<"a">>, Str(100), Str(10), Str(30))
ThreeTenths == Data(<<"a">>, Str(300), Str(10), Str(30))

LedgerData == {PaidInFull, Unpaid, PartlyPaid, ZeroTotal, OverPaid, ThreeTenths}

\* The create form of user u with the date and every reference chosen.
FilledForm(u) ==
  [BlankForm EXCEPT
     !.date = CHOOSE d \in Dates : TRUE,
     !.category_id = (CHOOSE c \in FormCategories : TRUE).id,
     !.paid_by_id = (CHOOSE p \in OwnPaidBy(u) : TRUE).id,
     !.event_id = (CHOOSE e \in OwnEvents(u) : TRUE).id,
     !.payment_mode_id = (CHOOSE m \in FormPaymentModes : TRUE).id]

\* A create by user u: the form with date d, category c, event e and payment
\* mode m chosen, and the entered data.
Entry(u, d, c, e, m, data) ==
  [user |-> u,
   form |-> [FilledForm(u) EXCEPT !.date = d, !.category_id = c, !.event_id = e,
                                  !.payment_mode_id = m],
   data |-> data]

\* The row that the create e stores under id.
CreatedRow(id, e) == InsertRow(id, InsertPayload(e.user, e.form, e.data))

\* The creates that fill the stores.  The seventh is a row of u1 that names
\* an event of u2: the policies of public.expenses accept it when it is
\* inserted through the API, and u1 cannot read the name of that event.
LedgerEntries ==
  {Entry("u1", 20250110, "c1", "e1", "m1", PaidInFull),
   Entry("u1", 20250201, "c2", "e1", "m2", PaidInFull),
   Entry("u1", 20250110, "c1", "e1", "m1", PartlyPaid),
   Entry("u1", 20250201, "c3", "e1", "m1", ZeroTotal),
   Entry("u1", 20241215, "c2", "e1", "m2", OverPaid),
   Entry("u1", 20250110, "c1", "e1", "m1", ThreeTenths),
   Entry("u1", 20250110, "c1", "e2", "m1", Unpaid),
   Entry("u2", 20250110, "c1", "e2", "m1", PaidInFull),
   Entry("u2", 20250110, "c2", "e2", "m2", OverPaid)}

\* The creates of a longer ledger of u1, one category each, repeated in
\* this order.
LongEntries ==
  <<Entry("u1", 20250110, "c1", "e1", "m1", Unpaid),
    Entry("u1", 20250201, "c2", "e1", "m2", PaidInFull),
    Entry("u1", 20241215, "c3", "e1", "m1", Unpaid),
    Entry("u1", 20250110, "c4", "e1", "m1", PartlyPaid),
    Entry("u1", 20250201, "c5", "e1", "m2", ZeroTotal),
    Entry("u1", 20250110, "c6", "e1", "m1", OverPaid),
    Entry("u1", 20241215, "c7", "e2", "m1", PaidInFull)>>

LongLedger ==
  {CreatedRow(i, LongEntries[i]) : i \in DOMAIN LongEntries}

\* The stores of up to MaxRows rows that creates by the users leave, and the
\* longer ledger.
Ledgers ==
  UNION {{{CreatedRow(i, e[i]) : i \in 1..n} :
            e \in [1..n -> {x \in LedgerEntries : PassesValidation(x.data)}]} :
         n \in 0..MaxRows}
    \cup {LongLedger}

InitAgg ==
  /\ SetupDone
  /\ expenses \in Ledgers
  /\ nextId = Cardinality(expenses) + 1
  /\ user \in Users
  /\ form = BlankForm
  /\ toast = NoToast
  /\ errors = {}
  /\ sent = "none"
  /\ op = "other"
  /\ mounted = "Dashboard"
  /\ loading = TRUE
  /\ stats = InitialStats
  /\ analytics = NoAnalytics
  /\ analyticsExpenses = <<>>

\* The orders in which the query of a view that is loading can return the
\* records of the user.
FetchOrders ==
  IF loading THEN Orderings({r.id : r \in Fetch(user)}) ELSE {}

NextAgg ==
  \/ \E c \in Components : Mount(c)
  \/ \E ok \in BOOLEAN : loadDashboardData(ok)
  \/ \E ok \in BOOLEAN, now \in NowMonths, behindUTC \in BOOLEAN :
       \E order \in FetchOrders : fetchAnalyticsData(ok, order, now, behindUTC)
  \/ \E ok \in BOOLEAN :
       \E order \in FetchOrders : loadExpenses(ok, order)
  \/ renderAnalytics

SpecAgg == InitAgg /\ [][NextAgg]_vars

\* ======================================================================
\* The setup: Index.checkSetupStatus and the SetupWizard
\* ======================================================================
appVars ==
  <<expenses, nextId, form, errors, sent, op, mounted, loading, stats,
    analytics, analyticsExpenses>>

SetupCompleteMsg == "Setup Complete!"
SetupFailedMsg == "Setup Failed"

\* Array.prototype.includes and filter(p => p !== item) on a list of names.
Includes(list, name) == \E i \in DOMAIN list : list[i] = name
Without(list, item) == SelectSeq(list, LAMBDA p : p # item)

\* The trimmed texts typed into the two inputs: nothing, a name that the
\* default lists hold, a new name.
NewNames == {"", "Other", "Guest"}

\* The entry whose remove button is clicked: the first of the list.
Removable(list) == IF list = <<>> THEN {} ELSE {list[1]}

\* list.map(name => ({ name, user_id: user.id }))
RowsOf(list, u) == {[name |-> list[i], user_id |-> u] : i \in DOMAIN list}

\* Whether .insert(rows) is carried out: the request is answered without an
\* error and no row repeats a (name, user_id) of the table.
InsertAccepted(table, rows, dbOk) == dbOk /\ rows \cap table = {}

\* The page is loaded anew in the session of the user: Index and its
\* children start from their useState defaults.
Reload ==
  /\ user # NoUser
  /\ needsSetup' = "null"
  /\ step' = 1
  /\ paidByList' = defaultPaidBy
  /\ eventsList' = defaultEvents
  /\ toast' = NoToast
  /\ UNCHANGED <<user, paidByTable, eventsTable, appVars>>

\* Index.checkSetupStatus, run by the effect on [user]; a query that fails
\* resolves with data null.
checkSetupStatus(paidByOk, eventsOk) ==
  /\ user # NoUser
  /\ needsSetup = "null"
  /\ LET hasData ==
           \/ paidByOk /\ \E r \in paidByTable : r.user_id = user
           \/ eventsOk /\ \E r \in eventsTable : r.user_id = user
     IN  needsSetup' = IF hasData THEN "false" ELSE "true"
  /\ UNCHANGED <<user, toast, step, paidByList, eventsList, paidByTable,
                 eventsTable, appVars>>

addPaidBy(name) ==
  /\ needsSetup = "true" /\ step = 1
  /\ paidByList' =
       IF name # "" /\ ~Includes(paidByList, name)
         THEN Append(paidByList, name) ELSE paidByList
  /\ UNCHANGED <<user, toast, needsSetup, step, eventsList, paidByTable,
                 eventsTable, appVars>>

removePaidBy(item) ==
  /\ needsSetup = "true" /\ step = 1
  /\ paidByList' = Without(paidByList, item)
  /\ UNCHANGED <<user, toast, needsSetup, step, eventsList, paidByTable,
                 eventsTable, appVars>>

addEvent(name) ==
  /\ needsSetup = "true" /\ step = 2
  /\ eventsList' =
       IF name # "" /\ ~Includes(eventsList, name)
         THEN Append(eventsList, name) ELSE eventsList
  /\ UNCHANGED <<user, toast, needsSetup, step, paidByList, paidByTable,
                 eventsTable, appVars>>

removeEvent(item) ==
  /\ needsSetup = "true" /\ step = 2
  /\ eventsList' = Without(eventsList, item)
  /\ UNCHANGED <<user, toast, needsSetup, step, paidByList, paidByTable,
                 eventsTable, appVars>>

\* The Previous button: setStep(1).
handlePrevious ==
  /\ needsSetup = "true" /\ step # 1
  /\ step' = 1
  /\ UNCHANGED <<user, toast, needsSetup, paidByList, eventsList, paidByTable,
                 eventsTable, appVars>>

\* SetupWizard.handleComplete: the paid_by rows are inserted, then the
\* events rows; the first error ends it with the failure toast.  When both
\* inserts went through, handleSetupComplete of Index clears needsSetup and
\* the wizard is unmounted, its state gone.
handleComplete(paidByOk, eventsOk) ==
  /\ user # NoUser
  /\ IF ~InsertAccepted(paidByTable, RowsOf(paidByList, user), paidByOk)
       THEN /\ toast' = SetupFailedMsg
            /\ UNCHANGED <<needsSetup, step, paidByList, eventsList,
                           paidByTable, eventsTable>>
       ELSE /\ paidByTable' = paidByTable \cup RowsOf(paidByList, user)
            /\ IF ~InsertAccepted(eventsTable, RowsOf(eventsList, user), eventsOk)
                 THEN /\ toast' = SetupFailedMsg
                      /\ UNCHANGED <<needsSetup, step, paidByList, eventsList,
                                     eventsTable>>
                 ELSE /\ eventsTable' = eventsTable \cup RowsOf(eventsList, user)
                      /\ toast' = SetupCompleteMsg
                      /\ needsSetup' = "false"
                      /\ step' = 1
                      /\ paidByList' = defaultPaidBy
                      /\ eventsList' = defaultEvents

\* The Next button (disabled while a completion is in flight): step 1 leads
\* to step 2, step 2 completes.
handleNext(paidByOk, eventsOk) ==
  /\ needsSetup = "true"
  /\ IF step = 1
       THEN /\ step' = 2
            /\ UNCHANGED <<toast, needsSetup, paidByList, eventsList,
                           paidByTable, eventsTable>>
       ELSE handleComplete(paidByOk, eventsOk)
  /\ UNCHANGED <<user, appVars>>

\* A user without reference rows has signed in; Index has not yet checked
\* whether the setup is needed.
InitSetup ==
  /\ user \in Users
  /\ needsSetup = "null"
  /\ step = 1
  /\ paidByList = defaultPaidBy
  /\ eventsList = defaultEvents
  /\ paidByTable = {}
  /\ eventsTable = {}
  /\ expenses = {}
  /\ nextId = 1
  /\ form = BlankForm
  /\ toast = NoToast
  /\ errors = {}
  /\ sent = "none"
  /\ op = "other"
  /\ mounted = "Dashboard"
  /\ loading = TRUE
  /\ stats = InitialStats
  /\ analytics = NoAnalytics
  /\ analyticsExpenses = <<>>

NextSetup ==
  \/ Reload
  \/ \E paidByOk \in BOOLEAN, eventsOk \in BOOLEAN :
       checkSetupStatus(paidByOk, eventsOk)
  \/ \E name \in NewNames : addPaidBy(name)
  \/ \E item \in Removable(paidByList) : removePaidBy(item)
  \/ \E name \in NewNames : addEvent(name)
  \/ \E item \in Removable(eventsList) : removeEvent(item)
  \/ handlePrevious
  \/ \E paidByOk \in BOOLEAN, eventsOk \in BOOLEAN :
       handleNext(paidByOk, eventsOk)

SpecSetup == InitSetup /\ [][NextSetup]_vars

\* ======================================================================
\* The page: the form, the store and the Dashboard above the tabs
\* ======================================================================
\* An expense that the second user created in an earlier session; its id is
\* none that a create of this run is given.
EarlierRow ==
  CreatedRow(MaxExpenses + 1, Entry("u2", 20250110, "c1", "e2", "m1", Unpaid))

\* The data entered in the form of the page.
PageData == {PaidInFull, Unpaid}

InitPage ==
  /\ SetupDone
  /\ expenses \in {{}, {EarlierRow}}
  /\ nextId = 1
  /\ user = NoUser
  /\ form = ClosedForm
  /\ toast = NoToast
  /\ errors = {}
  /\ sent = "none"
  /\ op = "other"
  /\ mounted = "Dashboard"
  /\ loading = TRUE
  /\ stats = InitialStats
  /\ analytics = NoAnalytics
  /\ analyticsExpenses = <<>>

\* Index renders <Dashboard /> without props (Index.tsx:105): its effect
\* depends on [user] alone, so it loads once after the sign-in.
NextPage ==
  \/ \E u \in Users : SignIn(u)
  \/ SignOut
  \/ OpenCreate
  \/ \E r \in expenses : OpenEdit(r, Tables)
  \/ \E d \in Dates : SetDate(d)
  \/ \E c \in FormCategories : SelectOption("category_id", c.id)
  \/ \E m \in FormPaymentModes : SelectOption("payment_mode_id", m.id)
  \/ \E p \in OwnPaidBy(user) : SelectOption("paid_by_id", p.id)
  \/ \E e \in OwnEvents(user) : SelectOption("event_id", e.id)
  \/ \E data \in PageData, dbOk \in BOOLEAN : Submit(data, dbOk)
  \/ \E r \in expenses, dbOk \in BOOLEAN : Delete(r, dbOk)
  \/ \E ok \in BOOLEAN : loadDashboardData(ok)

SpecPage == InitPage /\ [][NextPage]_vars

\* ======================================================================
\* Properties of the derivation and of the form
\* ======================================================================

\* String.prototype.trim on a sequence of characters.
RECURSIVE TrimLeft(_)
TrimLeft(s) == IF s # <<>> /\ Head(s) = " " THEN TrimLeft(Tail(s)) ELSE s

RECURSIVE TrimRight(_)
TrimRight(s) ==
  IF s # <<>> /\ s[Len(s)] = " " THEN TrimRight(SubSeq(s, 1, Len(s) - 1)) ELSE s

Trim(s) == TrimRight(TrimLeft(s))

\* C1: every stored expense with total_amount > 0 is 'paid' exactly when
\* paid_amount >= total_amount, 'half_paid' exactly when
\* 0 < paid_amount < total_amount, and 'unpaid' exactly when paid_amount = 0.
C1_StatusWhenTotalPositive ==
  \A r \in expenses :
    r.total_amount > 0 =>
      /\ (r.paid_status = "paid") <=> (r.paid_amount >= r.total_amount)
      /\ (r.paid_status = "half_paid") <=>
           (0 < r.paid_amount /\ r.paid_amount < r.total_amount)
      /\ (r.paid_status = "unpaid") <=> (r.paid_amount = 0)

\* C2: a stored expense with total_amount = 0 is never 'paid': it is
\* 'unpaid' with paid_amount = 0 and 'half_paid' with paid_amount > 0.
C2_ZeroTotalNeverPaid ==
  \A r \in expenses :
    r.total_amount = 0 =>
      /\ r.paid_status # "paid"
      /\ r.paid_amount = 0 => r.paid_status = "unpaid"
      /\ r.paid_amount > 0 => r.paid_status = "half_paid"

\* C3: the stored total_amount of every expense, created or updated, is
\* quantity * unit_price.
C3_TotalIsQuantityTimesPrice ==
  \A r \in expenses : r.total_amount = r.quantity * r.unit_price

\* An update has just stored a total above the unit price.
C3_Witness ==
  /\ op = "submit" /\ sent = "update" /\ toast = UpdatedMsg
  /\ \E r \in expenses : r.quantity = 3 /\ r.unit_price = 10 /\ r.total_amount = 30

\* C4: the stored balance is total_amount - paid_amount, negative for an
\* over-payment.
C4_BalanceIsTotalMinusPaid ==
  \A r \in expenses :
    /\ r.balance = r.total_amount - r.paid_amount
    /\ r.paid_amount > r.total_amount => r.balance < 0

\* A submit has just stored an over-paid expense.
C4_Witness ==
  /\ op = "submit" /\ sent \in {"insert", "update"}
  /\ \E r \in expenses : r.paid_amount > r.total_amount /\ r.balance < 0

\* The stored columns a fresh create of the inputs held by row r produces.
FreshCreate(r) ==
  Columns(InsertPayload(r.user_id,
    [date |-> r.date, category_id |-> r.category_id, paid_by_id |-> r.paid_by_id,
     event_id |-> r.event_id, payment_mode_id |-> r.payment_mode_id],
    [item_name |-> r.item_name, quantity |-> Str(100 * r.quantity),
     unit_price |-> Str(r.unit_price), paid_amount |-> Str(r.paid_amount)]))

\* C5: a successful update leaves the edited row with the total_amount,
\* balance and paid_status that a fresh create of the same quantity,
\* unit_price and paid_amount stores, whatever the row held before.
C5_UpdateDerivesLikeCreate ==
  [][(op' = "submit" /\ sent' = "update" /\ toast' = UpdatedMsg) =>
       \A r \in expenses' :
         r.id = form.editing =>
           /\ r.total_amount = FreshCreate(r).total_amount
           /\ r.balance = FreshCreate(r).balance
           /\ r.paid_status = FreshCreate(r).paid_status]_vars

\* An update has just turned a row into a partly paid 3 x 0.10 expense.
C5_Witness ==
  /\ op = "submit" /\ sent = "update" /\ toast = UpdatedMsg
  /\ \E r \in expenses :
       r.quantity = 3 /\ r.unit_price = 10 /\ r.paid_amount = 10
         /\ r.paid_status = "half_paid"

C7_StoredQuantitiesAndAmountsInRange ==
  /\ [](\A r \in expenses :
          r.quantity \in Nat /\ r.quantity >= 1 /\ r.unit_price >= 0
            /\ r.paid_amount >= 0)
  /\ [][\A data \in InvalidData, dbOk \in BOOLEAN :
          (/\ op' \in {"submit", "rejected"}
           /\ \/ ToNumber(data.quantity) < 100
              \/ ToNumber(data.unit_price) < 0
              \/ ToNumber(data.paid_amount) < 0
           /\ Submit(data, dbOk)) =>
            (sent' = "none" /\ expenses' = expenses)]_vars

\* A submit has just been refused by validation while the store holds a row.
C7_Witness ==
  op = "rejected" /\ sent = "none" /\ errors = {} /\ expenses # {}

\* C8: no stored expense has an item_name that is empty after trimming.
C8_ItemNameNotBlank ==
  \A r \in expenses : Trim(r.item_name) # <<>>

\* ======================================================================
\* Properties of the aggregation views
\* ======================================================================

\* The records of the signed-in user, as a set.
Collection == {r \in expenses : r.user_id = user}

RECURSIVE SetSum(_, _)
SetSum(S, f) ==
  IF S = {} THEN 0
  ELSE LET r == CHOOSE x \in S : TRUE IN r[f] + SetSum(S \ {r}, f)

\* n / d rounded to the nearest whole number, halves up (n >= 0, d > 0).
Round(n, d) == (2 * n + d) \div (2 * d)

\* C9: once the collection is fetched, percentPaid (the dashboard's
\* getPercentagePaid, the analytics view's paymentPercent) is
\* round(totalPaid / totalExpenses * 100) when totalExpenses > 0 and 0 when
\* totalExpenses is 0, the empty collection included.
C9_PercentPaidIsRounded ==
  LET total == SetSum(Collection, "total_amount")
      paid == SetSum(Collection, "paid_amount")
      percentPaid == IF total > 0 THEN Round(100 * paid, total) ELSE 0
  IN  /\ (mounted = "Dashboard" /\ op = "fetched") =>
           getPercentagePaid = percentPaid
      /\ (mounted = "Analytics2" /\ op = "fetched") =>
           paymentPercent.num = percentPaid * paymentPercent.den

\* C10: once a view has fetched the collection, its three totals are the
\* sums of total_amount, paid_amount and balance over exactly the records of
\* the collection and the dashboard's expenseCount is their number; for the
\* empty collection the totals and the count are 0 and every group mapping
\* is empty.
C10_TotalsAreSumsOverFetched ==
  LET total == SetSum(Collection, "total_amount")
      paid == SetSum(Collection, "paid_amount")
      balance == SetSum(Collection, "balance")
  IN  /\ (mounted = "Dashboard" /\ op = "fetched") =>
           /\ stats.totalExpenses = total
           /\ stats.totalPaid = paid
           /\ stats.totalBalance = balance
           /\ stats.expenseCount = Cardinality(Collection)
           /\ Collection = {} =>
                /\ stats.totalExpenses = 0 /\ stats.totalPaid = 0
                /\ stats.totalBalance = 0 /\ stats.expenseCount = 0
                /\ DOMAIN stats.categoryBreakdown = {}
      /\ (mounted = "Analytics" /\ op = "fetched") =>
           /\ analytics # NoAnalytics
           /\ analytics.totalBudget = total
           /\ analytics.totalSpent = paid
           /\ analytics.totalBalance = balance
           /\ Collection = {} =>
                /\ analytics.totalBudget = 0 /\ analytics.totalSpent = 0
                /\ analytics.totalBalance = 0
                /\ Len(analytics.recentExpenses) = 0
                /\ DOMAIN analytics.expensesByCategory = {}
                /\ DOMAIN analytics.expensesByEvent = {}
                /\ DOMAIN analytics.expensesByStatus = {}
      /\ (mounted = "Analytics2" /\ op = "fetched") =>
           /\ totalSpent = total
           /\ totalPaid = paid
           /\ totalBalance = balance
           /\ Len(analyticsExpenses) = Cardinality(Collection)
           /\ Collection = {} =>
                /\ totalSpent = 0 /\ totalPaid = 0 /\ totalBalance = 0
                /\ DOMAIN categoryData = {} /\ DOMAIN eventData = {}
                /\ DOMAIN statusData = {} /\ DOMAIN paymentMethodData = {}

\* The dashboard has just fetched the one over-paid record of the user from
\* a store that also holds a record of the other user.
C10_Witness ==
  /\ mounted = "Dashboard" /\ op = "fetched"
  /\ Cardinality(expenses) = 2
  /\ stats.expenseCount = 1 /\ stats.totalExpenses = 10
  /\ stats.totalPaid = 30 /\ stats.totalBalance = -20

\* C11: the expense count that a view reports after its fetch (the dashboard's
\* "expenses tracked", the "Total Expenses" card of the analytics views) is
\* the number of records of the fetched collection, whatever its size.
C11_CountIsCollectionSize ==
  /\ (mounted = "Dashboard" /\ op = "fetched") =>
       stats.expenseCount = Cardinality(Collection)
  /\ (mounted = "Analytics" /\ op = "fetched") =>
       Len(analytics.recentExpenses) = Cardinality(Collection)
  /\ (mounted = "Analytics2" /\ op = "fetched") =>
       Len(analyticsExpenses) = Cardinality(Collection)

\* The sum of the values f[k] over the keys k of K.
RECURSIVE SumOver(_, _)
SumOver(f, K) ==
  IF K = {} THEN 0
  ELSE LET k == CHOOSE x \in K : TRUE IN f[k] + SumOver(f, K \ {k})

\* C12: in every view, the totals of the category groups add up to the total
\* of the expenses, and so do the totals of the event groups and those of the
\* status groups.
C12_GroupTotalsAddUpToTotal ==
  /\ (mounted = "Dashboard" /\ op = "fetched") =>
       /\ SumSeq([n \in DOMAIN stats.categoryBreakdown |->
                    stats.categoryBreakdown[n].value]) = stats.totalExpenses
       /\ stats.totalExpenses = SetSum(Collection, "total_amount")
  /\ (mounted = "Analytics" /\ op = "fetched") =>
       /\ SumOver(analytics.expensesByCategory,
                  DOMAIN analytics.expensesByCategory) = analytics.totalBudget
       /\ SumOver(analytics.expensesByEvent,
                  DOMAIN analytics.expensesByEvent) = analytics.totalBudget
       /\ SumOver(analytics.expensesByStatus,
                  DOMAIN analytics.expensesByStatus) = analytics.totalBudget
       /\ analytics.totalBudget = SetSum(Collection, "total_amount")
  /\ (mounted = "Analytics2" /\ op = "fetched") =>
       /\ SumOver([k \in DOMAIN categoryData |-> categoryData[k].total],
                  DOMAIN categoryData) = totalSpent
       /\ SumOver([k \in DOMAIN eventData |-> eventData[k].total],
                  DOMAIN eventData) = totalSpent
       /\ SumOver([k \in DOMAIN statusData |-> statusData[k].amount],
                  DOMAIN statusData) = totalSpent
       /\ totalSpent = SetSum(Collection, "total_amount")

\* The first analytics view has grouped seven records: seven categories, a
\* named event and the records without one, and the three statuses.
C12_Witness ==
  /\ mounted = "Analytics" /\ op = "fetched"
  /\ Cardinality(Collection) = 7
  /\ Cardinality(DOMAIN analytics.expensesByCategory) = 7
  /\ DOMAIN analytics.expensesByEvent = {"Wedding", "No Event"}
  /\ DOMAIN analytics.expensesByStatus = {"paid", "half_paid", "unpaid"}
  /\ analytics.expensesByStatus["paid"] > analytics.expensesByCategory["Catering"]
  /\ analytics.totalBudget > 0

PaidWith(k) == {r \in Collection : JoinName(PaymentModes, r.payment_mode_id) = k}

Label(table, id, sentinel) ==
  IF JoinName(table, id) = Missing THEN sentinel ELSE JoinName(table, id)

CategoryLabelled(k, sentinel) ==
  {r \in Collection : Label(Categories, r.category_id, sentinel) = k}

EventLabelled(k, sentinel) ==
  {r \in Collection : Label(OwnEvents(user), r.event_id, sentinel) = k}

PaymentModeLabelled(k, sentinel) ==
  {r \in Collection : Label(PaymentModes, r.payment_mode_id, sentinel) = k}

\* C14: grouping drops no record.  Every record is filed under the name of
\* its category, event or payment mode, and under the fixed sentinel of that
\* dimension when it has no name; the counts of the groups of a dimension add
\* up to the number of records.
C14_NoRecordDroppedByGrouping ==
  /\ (mounted = "Dashboard" /\ op = "fetched") =>
       /\ {stats.categoryBreakdown[n].key : n \in DOMAIN stats.categoryBreakdown}
            = {Label(Categories, r.category_id, "Other") : r \in Collection}
       /\ \A n \in DOMAIN stats.categoryBreakdown :
            stats.categoryBreakdown[n].value =
              SetSum(CategoryLabelled(stats.categoryBreakdown[n].key, "Other"),
                     "total_amount")
  /\ (mounted = "Analytics" /\ op = "fetched") =>
       /\ DOMAIN analytics.expensesByCategory =
            {Label(Categories, r.category_id, "Uncategorized") : r \in Collection}
       /\ DOMAIN analytics.expensesByEvent =
            {Label(OwnEvents(user), r.event_id, "No Event") : r \in Collection}
       /\ \A k \in DOMAIN analytics.expensesByEvent :
            analytics.expensesByEvent[k] =
              SetSum(EventLabelled(k, "No Event"), "total_amount")
  /\ (mounted = "Analytics2" /\ op = "fetched") =>
       /\ \A k \in DOMAIN categoryData :
            categoryData[k].count = Cardinality(CategoryLabelled(k, "Unknown"))
       /\ \A k \in DOMAIN eventData :
            eventData[k].count = Cardinality(EventLabelled(k, "General"))
       /\ \A k \in DOMAIN paymentMethodData :
            paymentMethodData[k].count = Cardinality(PaymentModeLabelled(k, "Unknown"))
       /\ SumOver([k \in DOMAIN categoryData |-> categoryData[k].count],
                  DOMAIN categoryData) = Cardinality(Collection)
       /\ SumOver([k \in DOMAIN eventData |-> eventData[k].count],
                  DOMAIN eventData) = Cardinality(Collection)
       /\ SumOver([k \in DOMAIN paymentMethodData |-> paymentMethodData[k].count],
                  DOMAIN paymentMethodData) = Cardinality(Collection)

\* The second analytics view has grouped seven records, one of which names
\* an event that the user cannot read.
C14_Witness ==
  /\ mounted = "Analytics2" /\ op = "fetched"
  /\ Cardinality(Collection) = 7
  /\ \E r \in Collection : JoinName(OwnEvents(user), r.event_id) = Missing
  /\ DOMAIN eventData = {"Wedding", "General"}
  /\ eventData["General"].count = 1
  /\ eventData["Wedding"].count = 6

\* The records of the collection with the given paid_status.
WithStatus(status) == {r \in Collection : r.paid_status = status}

\* C15: on the dashboard completedPayments counts the paid records and
\* upcomingPayments the unpaid ones; a partly paid record is in neither
\* count, so the two add up to the number of records less the partly paid.
C15_PartlyPaidInNeitherCount ==
  (mounted = "Dashboard" /\ op = "fetched") =>
    /\ stats.completedPayments = Cardinality(WithStatus("paid"))
    /\ stats.upcomingPayments = Cardinality(WithStatus("unpaid"))
    /\ stats.completedPayments + stats.upcomingPayments =
         stats.expenseCount - Cardinality(WithStatus("half_paid"))

\* The dashboard has counted a collection with paid, unpaid and partly paid
\* records.
C15_Witness ==
  /\ mounted = "Dashboard" /\ op = "fetched"
  /\ stats.expenseCount = 7
  /\ Cardinality(WithStatus("half_paid")) = 1
  /\ stats.completedPayments >= 2
  /\ stats.upcomingPayments >= 2

\* The category labels of the dashboard and, for a label, its summed
\* total_amount and the id of the record with which it first appears in the
\* fetched collection (latest created first: the largest id).
DashboardLabels == {Label(Categories, r.category_id, "Other") : r \in Collection}

LabelTotal(k) == SetSum(CategoryLabelled(k, "Other"), "total_amount")

FirstAppearance(k) ==
  CHOOSE i \in {r.id : r \in CategoryLabelled(k, "Other")} :
    \A r \in CategoryLabelled(k, "Other") : r.id <= i

\* k comes before l in the ranking: by larger total, and between equal
\* totals by earlier first appearance.
RanksBefore(k, l) ==
  \/ LabelTotal(k) > LabelTotal(l)
  \/ LabelTotal(k) = LabelTotal(l) /\ FirstAppearance(k) > FirstAppearance(l)

\* C16: the top-categories list of the dashboard holds the first
\* min(6, number of groups) category groups in the order of their summed
\* total_amount, largest first, groups of equal sums in the order of their
\* first appearance: never more than 6 entries and none that is no group.
C16_TopCategoriesAreFirstSix ==
  (mounted = "Dashboard" /\ op = "fetched") =>
    /\ Len(topCategories) =
         (IF Cardinality(DashboardLabels) < 6 THEN Cardinality(DashboardLabels) ELSE 6)
    /\ \A n \in DOMAIN topCategories :
         /\ topCategories[n].key \in DashboardLabels
         /\ topCategories[n].value = LabelTotal(topCategories[n].key)
    /\ \A m, n \in DOMAIN topCategories :
         m < n => RanksBefore(topCategories[m].key, topCategories[n].key)
    /\ \A k \in DashboardLabels :
         (\A n \in DOMAIN topCategories : topCategories[n].key # k) =>
           \A n \in DOMAIN topCategories : RanksBefore(topCategories[n].key, k)

\* Seven category groups, of which six are listed; the first two have equal
\* sums, and so have the next two.
C16_Witness ==
  /\ mounted = "Dashboard" /\ op = "fetched"
  /\ Len(stats.categoryBreakdown) = 7
  /\ Len(topCategories) = 6
  /\ topCategories[1].value = topCategories[2].value
  /\ topCategories[3].value = topCategories[4].value
  /\ topCategories[2].value > topCategories[3].value

\* The records of the collection dated in the month m (a count of months).
DatedIn(m) == {r \in Collection : MonthOf(r.date) = m}

\* C17: the monthly trend has exactly six buckets, the six months that end
\* at the current month, oldest first; the amount of a bucket is the sum of
\* paid_amount of the records dated in its month, 0 when there is none.
C17_TrendHasSixMonthSums ==
  (mounted = "Analytics" /\ op = "fetched") =>
    /\ Len(analytics.monthlyTrend) = 6
    /\ analytics.monthlyTrend[6].month \in NowMonths
    /\ \A k \in 1..5 :
         analytics.monthlyTrend[k + 1].month = analytics.monthlyTrend[k].month + 1
    /\ \A k \in 1..6 :
         analytics.monthlyTrend[k].amount =
           SetSum(DatedIn(analytics.monthlyTrend[k].month), "paid_amount")

\* C18: the recent list of a view holds min(5, count) records of the
\* collection, latest first by created_at on the dashboard and by date in the
\* analytics view, and no record that it leaves out is more recent than one
\* that it holds.
C18_RecentAreTheLatest ==
  /\ (mounted = "Dashboard" /\ op = "fetched") =>
       LET recent == stats.recentActivity
           ids == {recent[n].id : n \in DOMAIN recent}
       IN  /\ Len(recent) = (IF Cardinality(Collection) < 5
                               THEN Cardinality(Collection) ELSE 5)
           /\ Cardinality(ids) = Len(recent)
           /\ ids \subseteq {r.id : r \in Collection}
           /\ \A m, n \in DOMAIN recent : m < n => recent[m].id > recent[n].id
           /\ \A r \in Collection : r.id \notin ids => \A i \in ids : r.id < i
  /\ (mounted = "Analytics" /\ op = "fetched") =>
       LET recent == analytics.recentExpenses
           ids == {recent[n].id : n \in DOMAIN recent}
       IN  /\ Len(recent) = (IF Cardinality(Collection) < 5
                               THEN Cardinality(Collection) ELSE 5)
           /\ Cardinality(ids) = Len(recent)
           /\ \A n \in DOMAIN recent :
                \E r \in Collection : r.id = recent[n].id /\ r.date = recent[n].date
           /\ \A m, n \in DOMAIN recent : m < n => recent[m].date >= recent[n].date
           /\ \A r \in Collection :
                r.id \notin ids => \A n \in DOMAIN recent : r.date <= recent[n].date

\* The analytics view lists five of seven records of three dates: the two
\* of the oldest date are left out.
C18_Witness ==
  /\ mounted = "Analytics" /\ op = "fetched"
  /\ Cardinality(Collection) = 7
  /\ Len(analytics.recentExpenses) = 5
  /\ analytics.recentExpenses[1].date = 20250201
  /\ analytics.recentExpenses[5].date = 20250110
  /\ \E r \in Collection : r.date = 20241215

\* C19: a failure of the store is shown to the user as an error.  For the
\* fetch that feeds a view: once the fetch has failed, an error toast is up.
\* (A failed create, update or delete does leave RequestFailedMsg in toast.)
C19_FailedFetchIsShown ==
  op = "fetchFailed" => toast = RequestFailedMsg

\* C20: an update sent for an expense that the store no longer holds is
\* answered with an error toast, not with the success toast.
C20_MissingTargetIsAnError ==
  [][(/\ form.mode = "edit"
      /\ ~(\E r \in expenses : r.id = form.editing /\ r.user_id = user)
      /\ op' = "submit"
      /\ sent' = "update")
       => toast' = RequestFailedMsg]_vars

\* C21: the owner of an expense is the user who was signed in when it was
\* created, and it never changes: a step leaves the user_id of every expense
\* that stays in the store as it was, a new expense gets a new id and the
\* user of the session, and the payload of an update names neither id nor
\* user_id.
C21_OwnerNeverChanges ==
  [][/\ \A n \in expenses' :
          \/ \E r \in expenses : r.id = n.id /\ r.user_id = n.user_id
          \/ /\ \A r \in expenses : r.id # n.id
             /\ n.id = nextId
             /\ user # NoUser /\ n.user_id = user
     /\ \A r, n \in expenses' : r.id = n.id => r = n
     /\ (form.mode = "edit" /\ sent' = "update") =>
          \A data \in FormData :
            DOMAIN UpdatePayload(form, data) \cap {"id", "user_id"} = {}]_vars

\* The second user has created an expense and has just saved an edit of it.
C21_Witness ==
  /\ op = "submit" /\ sent = "update" /\ toast = UpdatedMsg
  /\ user = "u2"
  /\ \E r \in expenses : r.user_id = "u2" /\ r.id = 1

\* The expenses of the other users.
OfOthers == {r \in expenses : r.user_id # user}

C24_RenderLeavesFetchedOrder ==
  [][(mounted = "Analytics2" /\ ~loading /\ mounted' = mounted)
       => /\ analyticsExpenses' = analyticsExpenses
          /\ recentExpenses' = recentExpenses]_vars

\* C25: no percentage divides by zero.  For every fetched collection, the
\* empty one and one whose totals are all 0 included, the share of each row of
\* the Top Categories card and the budget utilization of the Analytics view
\* are numbers, neither NaN nor Infinity.
C25_PercentagesAreNumbers ==
  /\ (mounted = "Dashboard" /\ op = "fetched")
       => \A i \in DOMAIN topCategories :
            percentage(topCategories[i].value) \notin {NaN, Infinity}
  /\ (mounted = "Analytics" /\ analytics # NoAnalytics)
       => budgetUtilization \notin {NaN, Infinity}

\* The inputs that row r was submitted with.
EnteredData(r) ==
  [item_name |-> r.item_name, quantity |-> Str(100 * r.quantity),
   unit_price |-> Str(r.unit_price), paid_amount |-> Str(r.paid_amount)]

\* The stored value of the status that a label of the form names.
StatusNamed(label) ==
  CASE label = "Paid" -> "paid"
    [] label = "Half Paid" -> "half_paid"
    [] label = "Unpaid" -> "unpaid"

\* C26: the status shown live in the form and the status persisted agree.
\* Every stored expense has the paid_status that getPaidStatus names for the
\* quantity, unit price and paid amount it was submitted with.
C26_LiveStatusIsPersistedStatus ==
  \A r \in expenses :
    PassesValidation(EnteredData(r)) =>
      r.paid_status = StatusNamed(getPaidStatus(EnteredData(r)))

\* C27: views refresh after a write.  A successful create, update or delete
\* that changes the store starts a new load of the Dashboard, so that the
\* totals shown once the page is idle are those of the store.
C27_WriteReloadsDashboard ==
  [][(op' \in {"submit", "delete"} /\ expenses' # expenses) => loading']_vars

\* C28: the main page is shown only to a user who has reference data.
\* Whenever Index shows the page instead of the wizard, whatever removals,
\* failed inserts, retries and reloads came before, the user has at least one
\* paid_by row and at least one events row.
C28_PageShownOnlyWithReferenceRows ==
  (user # NoUser /\ needsSetup = "false") =>
    /\ \E r \in paidByTable : r.user_id = user
    /\ \E r \in eventsTable : r.user_id = user

\* C29: the percentage paid is bounded.  For every collection that the form
\* can persist, the percentage paid that the Dashboard shows lies between 0
\* and 100, and the remaining percentage 100 - percentPaid is not negative.
C29_PercentPaidWithinBounds ==
  (mounted = "Dashboard" /\ op = "fetched") =>
    /\ getPercentagePaid \in 0..100
    /\ 100 - getPercentagePaid >= 0

\* C30: the rollups agree.  For every store that creates through the form
\* leave, the totals that the Dashboard shows after a load satisfy
\* totalBalance = totalExpenses - totalPaid.
C30_BalanceIsExpensesMinusPaid ==
  (mounted = "Dashboard" /\ op = "fetched") =>
    stats.totalBalance = stats.totalExpenses - stats.totalPaid

\* The Dashboard has loaded two expenses, 2 x 500.00 paid in full and
\* 1 x 40.00 with 23.00 paid: 1040.00 spent, 1023.00 paid, 17.00 open.
C30_Witness ==
  /\ mounted = "Dashboard" /\ op = "fetched"
  /\ stats.expenseCount = 2
  /\ stats.totalExpenses = 104000
  /\ stats.totalPaid = 102300
  /\ stats.totalBalance = 1700

====
